---- MODULE Spec2Model ----
(***************************************************************************)
(* The Claude Code CLI provider (src/ai-providers/claude-code.js): the      *)
(* cached CLI probe, the retryability predicate, the retry executor with    *)
(* exponential backoff, the error classifier and the three gated            *)
(* operations.                                                              *)
(*                                                                          *)
(* A JavaScript string is a sequence of characters, each character a        *)
(* one-character TLA+ string; the box-drawing character U+2550 of the       *)
(* message banners is the element "U+2550".  An optional property           *)
(* (error.message, error.code, error.status) is <<>> when undefined and     *)
(* <<v>> when it has the value v.                                           *)
(***************************************************************************)
EXTENDS Integers, Sequences, FiniteSets, TLC

VARIABLES
    cliInstalled,   \* this.cliInstalled: <<>> (null), <<TRUE>> or <<FALSE>>
    cliPresent,     \* the system: whether `claude --version` succeeds now
    probes,         \* how many times execSync('claude --version') has run
    firstProbe,     \* the outcome of the first external check, <<>> before it
    returned,       \* the values checkCLIInstallation has returned so far
    cacheHit,       \* some call of checkCLIInstallation answered from the cache
    probeThrew,     \* some call of checkCLIInstallation raised an error
    req,            \* the requests on the adapter, by slot
    classifyIn,     \* the error handed to handleError / isRetryableError directly
    classifyOut,    \* the error handleError threw for it, <<>> before the call
    retryOut        \* what isRetryableError returned for it, <<>> before the call

adapterVars == <<cliInstalled, probes, firstProbe, returned, cacheHit, probeThrew>>
classifyVars == <<classifyIn, classifyOut, retryOut>>
vars == <<cliInstalled, cliPresent, probes, firstProbe, returned, cacheHit, probeThrew, req,
          classifyIn, classifyOut, retryOut>>

----------------------------------------------------------------------------
(* Strings *)

Undefined == <<>>
Some(v) == <<v>>

\* String.prototype.toLowerCase on one character (ASCII letters; every
\* other character of the messages is its own lower case)
lowerChar(c) ==
    CASE c = "A" -> "a" [] c = "B" -> "b" [] c = "C" -> "c" [] c = "D" -> "d"
      [] c = "E" -> "e" [] c = "F" -> "f" [] c = "G" -> "g" [] c = "H" -> "h"
      [] c = "I" -> "i" [] c = "J" -> "j" [] c = "K" -> "k" [] c = "L" -> "l"
      [] c = "M" -> "m" [] c = "N" -> "n" [] c = "O" -> "o" [] c = "P" -> "p"
      [] c = "Q" -> "q" [] c = "R" -> "r" [] c = "S" -> "s" [] c = "T" -> "t"
      [] c = "U" -> "u" [] c = "V" -> "v" [] c = "W" -> "w" [] c = "X" -> "x"
      [] c = "Y" -> "y" [] c = "Z" -> "z" [] OTHER -> c

\* String.prototype.toLowerCase
toLowerCase(s) == [i \in 1..Len(s) |-> lowerChar(s[i])]

\* String.prototype.includes: sub occurs in s as a contiguous substring
includes(s, sub) ==
    \E i \in 0..(Len(s) - Len(sub)) : \A j \in 1..Len(sub) : s[i + j] = sub[j]

\* the banner line of the remediation messages: 63 times U+2550
Rule == [i \in 1..63 |-> "U+2550"]

\* the message thrown for an authentication error (claude-code.js 164-177)
AuthRequiredMessage ==
       Rule
    \o <<"\n",
         " "," ","C","l","a","u","d","e"," ","C","o","d","e"," ","A","u","t","h","e","n","t","i","c","a","t",
         "i","o","n"," ","R","e","q","u","i","r","e","d","\n">>
    \o Rule
    \o <<"\n",
         "\n",
         "Y","o","u"," ","n","e","e","d"," ","t","o"," ","a","u","t","h","e","n","t","i","c","a","t","e"," ",
         "w","i","t","h"," ","C","l","a","u","d","e"," ","C","o","d","e"," ","t","o"," ","u","s","e"," ","t",
         "h","i","s"," ","p","r","o","v","i","d","e","r",".","\n",
         "\n",
         "T","o"," ","a","u","t","h","e","n","t","i","c","a","t","e",":","\n",
         " "," ","c","l","a","u","d","e"," ","l","o","g","i","n","\n",
         "\n",
         "T","h","i","s"," ","w","i","l","l"," ","o","p","e","n"," ","y","o","u","r"," ","b","r","o","w","s",
         "e","r"," ","t","o"," ","c","o","m","p","l","e","t","e"," ","t","h","e"," ","a","u","t","h","e","n",
         "t","i","c","a","t","i","o","n",".","\n",
         "A","f","t","e","r"," ","a","u","t","h","e","n","t","i","c","a","t","i","n","g",","," ","t","r","y",
         " ","y","o","u","r"," ","c","o","m","m","a","n","d"," ","a","g","a","i","n",".","\n",
         "\n",
         "I","f"," ","y","o","u"," ","w","e","r","e"," ","p","r","e","v","i","o","u","s","l","y"," ","l","o",
         "g","g","e","d"," ","i","n",","," ","y","o","u","r"," ","s","e","s","s","i","o","n"," ","m","a","y",
         " ","h","a","v","e"," ","e","x","p","i","r","e","d",".","\n">>
    \o Rule

\* the message thrown for a CLI-not-found error (claude-code.js 189-208)
CliNotFoundMessage ==
       Rule
    \o <<"\n",
         " "," ","C","l","a","u","d","e"," ","C","o","d","e"," ","C","L","I"," ","N","o","t"," ","F","o","u",
         "n","d","\n">>
    \o Rule
    \o <<"\n",
         "\n",
         "T","h","e"," ","C","l","a","u","d","e"," ","C","o","d","e"," ","C","L","I"," ","i","s"," ","r","e",
         "q","u","i","r","e","d"," ","b","u","t"," ","n","o","t"," ","i","n","s","t","a","l","l","e","d"," ",
         "o","n"," ","y","o","u","r"," ","s","y","s","t","e","m",".","\n",
         "\n",
         "T","o"," ","f","i","x"," ","t","h","i","s"," ","i","s","s","u","e",":","\n",
         "\n",
         "1","."," ","I","n","s","t","a","l","l"," ","C","l","a","u","d","e"," ","C","o","d","e"," ","C","L",
         "I"," ","g","l","o","b","a","l","l","y",":","\n",
         " "," "," ","n","p","m"," ","i","n","s","t","a","l","l"," ","-","g"," ","@","a","n","t","h","r","o",
         "p","i","c","-","a","i","/","c","l","a","u","d","e","-","c","o","d","e","\n",
         "\n",
         "2","."," ","V","e","r","i","f","y"," ","i","n","s","t","a","l","l","a","t","i","o","n",":","\n",
         " "," "," ","c","l","a","u","d","e"," ","-","-","v","e","r","s","i","o","n","\n",
         "\n",
         "3","."," ","A","u","t","h","e","n","t","i","c","a","t","e"," ","w","i","t","h"," ","y","o","u","r",
         " ","C","l","a","u","d","e"," ","a","c","c","o","u","n","t",":","\n",
         " "," "," ","c","l","a","u","d","e"," ","l","o","g","i","n","\n",
         "\n",
         "F","o","r"," ","m","o","r","e"," ","i","n","f","o","r","m","a","t","i","o","n",","," ","v","i","s",
         "i","t",":","\n",
         "h","t","t","p","s",":","/","/","g","i","t","h","u","b",".","c","o","m","/","a","n","t","h","r","o",
         "p","i","c","s","/","c","l","a","u","d","e","-","c","o","d","e","\n">>
    \o Rule

\* the message thrown for a permission error (claude-code.js 218-237)
PermissionErrorMessage ==
       Rule
    \o <<"\n",
         " "," ","P","e","r","m","i","s","s","i","o","n"," ","E","r","r","o","r","\n">>
    \o Rule
    \o <<"\n",
         "\n",
         "C","l","a","u","d","e"," ","C","o","d","e"," ","C","L","I"," ","e","x","i","s","t","s"," ","b","u",
         "t"," ","c","a","n","n","o","t"," ","b","e"," ","e","x","e","c","u","t","e","d"," ","d","u","e"," ",
         "t","o"," ","p","e","r","m","i","s","s","i","o","n","s",".","\n",
         "\n",
         "T","o"," ","f","i","x"," ","t","h","i","s"," ","i","s","s","u","e",":","\n",
         "\n",
         "1","."," ","C","h","e","c","k"," ","f","i","l","e"," ","p","e","r","m","i","s","s","i","o","n","s",
         ":","\n",
         " "," "," ","l","s"," ","-","l","a"," ","$","(","w","h","i","c","h"," ","c","l","a","u","d","e",")",
         "\n",
         "\n",
         "2","."," ","I","f"," ","n","e","e","d","e","d",","," ","f","i","x"," ","p","e","r","m","i","s","s",
         "i","o","n","s",":","\n",
         " "," "," ","c","h","m","o","d"," ","+","x"," ","$","(","w","h","i","c","h"," ","c","l","a","u","d",
         "e",")","\n",
         "\n",
         "3","."," ","O","r"," ","r","e","i","n","s","t","a","l","l"," ","w","i","t","h"," ","p","r","o","p",
         "e","r"," ","p","e","r","m","i","s","s","i","o","n","s",":","\n",
         " "," "," ","s","u","d","o"," ","n","p","m"," ","i","n","s","t","a","l","l"," ","-","g"," ","@","a",
         "n","t","h","r","o","p","i","c","-","a","i","/","c","l","a","u","d","e","-","c","o","d","e","\n",
         "\n",
         "4","."," ","A","f","t","e","r"," ","f","i","x","i","n","g"," ","p","e","r","m","i","s","s","i","o",
         "n","s",","," ","a","u","t","h","e","n","t","i","c","a","t","e",":","\n",
         " "," "," ","c","l","a","u","d","e"," ","l","o","g","i","n","\n">>
    \o Rule

\* the message thrown for a timeout error (claude-code.js 250-275)
TimeoutMessage ==
       Rule
    \o <<"\n",
         " "," ","R","e","q","u","e","s","t"," ","T","i","m","e","o","u","t","\n">>
    \o Rule
    \o <<"\n",
         "\n",
         "T","h","e"," ","r","e","q","u","e","s","t"," ","t","o"," ","C","l","a","u","d","e"," ","t","i","m",
         "e","d"," ","o","u","t","."," ","T","h","i","s"," ","c","a","n"," ","h","a","p","p","e","n"," ","w",
         "i","t","h"," ","c","o","m","p","l","e","x","\n",
         "q","u","e","r","i","e","s"," ","o","r"," ","w","h","e","n"," ","C","l","a","u","d","e"," ","n","e",
         "e","d","s"," ","m","o","r","e"," ","t","i","m","e"," ","t","o"," ","t","h","i","n","k",".","\n",
         "\n",
         "T","o"," ","f","i","x"," ","t","h","i","s"," ","i","s","s","u","e",":","\n",
         "\n",
         "1","."," ","F","o","r"," ","c","o","m","p","l","e","x"," ","t","a","s","k","s",","," ","i","n","c",
         "r","e","a","s","e"," ","t","h","e"," ","t","i","m","e","o","u","t"," ","i","n"," ",".","t","a","s",
         "k","m","a","s","t","e","r","/","c","o","n","f","i","g",".","j","s","o","n",":","\n",
         " "," "," ","\"","c","l","a","u","d","e","C","o","d","e","\"",":"," ","{","\n",
         " "," "," "," "," ","\"","t","i","m","e","o","u","t","M","s","\"",":"," ","3","0","0","0","0","0",
         " "," ","/","/"," ","5"," ","m","i","n","u","t","e","s","\n",
         " "," "," ","}","\n",
         "\n",
         "2","."," ","F","o","r"," ","v","e","r","y"," ","l","o","n","g"," ","t","a","s","k","s"," ","(","u",
         "p"," ","t","o"," ","1","0"," ","m","i","n","u","t","e","s",")",":","\n",
         " "," "," ","\"","c","l","a","u","d","e","C","o","d","e","\"",":"," ","{","\n",
         " "," "," "," "," ","\"","t","i","m","e","o","u","t","M","s","\"",":"," ","6","0","0","0","0","0",
         " "," ","/","/"," ","1","0"," ","m","i","n","u","t","e","s","\n",
         " "," "," ","}","\n",
         "\n",
         "3","."," ","T","r","y"," ","b","r","e","a","k","i","n","g"," ","d","o","w","n"," ","c","o","m","p",
         "l","e","x"," ","r","e","q","u","e","s","t","s"," ","i","n","t","o"," ","s","m","a","l","l","e","r",
         " ","p","a","r","t","s","\n",
         "\n",
         "4","."," ","C","h","e","c","k"," ","y","o","u","r"," ","i","n","t","e","r","n","e","t"," ","c","o",
         "n","n","e","c","t","i","o","n"," ","s","t","a","b","i","l","i","t","y","\n",
         "\n",
         "N","o","t","e",":"," ","C","l","a","u","d","e"," ","O","p","u","s"," ","4"," ","m","a","y"," ","r",
         "e","q","u","i","r","e"," ","l","o","n","g","e","r"," ","t","i","m","e","o","u","t","s"," ","f","o",
         "r"," ","c","o","m","p","l","e","x","\n",
         "r","e","a","s","o","n","i","n","g"," ","t","a","s","k","s","."," ","T","h","e"," ","d","e","f","a",
         "u","l","t"," ","i","s"," ","2"," ","m","i","n","u","t","e","s"," ","(","1","2","0","0","0","0","m",
         "s",")",".","\n">>
    \o Rule

\* the message thrown for a network error (claude-code.js 291-313)
NetworkErrorMessage ==
       Rule
    \o <<"\n",
         " "," ","N","e","t","w","o","r","k"," ","C","o","n","n","e","c","t","i","o","n"," ","E","r","r","o",
         "r","\n">>
    \o Rule
    \o <<"\n",
         "\n",
         "U","n","a","b","l","e"," ","t","o"," ","c","o","n","n","e","c","t"," ","t","o"," ","C","l","a","u",
         "d","e"," ","s","e","r","v","e","r","s","."," ","T","h","i","s"," ","m","a","y"," ","b","e"," ","d",
         "u","e"," ","t","o",":","\n",
         "\n",
         "1","."," ","I","n","t","e","r","n","e","t"," ","c","o","n","n","e","c","t","i","v","i","t","y"," ",
         "i","s","s","u","e","s","\n",
         "2","."," ","F","i","r","e","w","a","l","l"," ","o","r"," ","p","r","o","x","y"," ","b","l","o","c",
         "k","i","n","g"," ","t","h","e"," ","c","o","n","n","e","c","t","i","o","n","\n",
         "3","."," ","C","l","a","u","d","e"," ","s","e","r","v","i","c","e"," ","t","e","m","p","o","r","a",
         "r","i","l","y"," ","u","n","a","v","a","i","l","a","b","l","e","\n",
         "\n",
         "T","o"," ","t","r","o","u","b","l","e","s","h","o","o","t",":","\n",
         "\n",
         "1","."," ","C","h","e","c","k"," ","y","o","u","r"," ","i","n","t","e","r","n","e","t"," ","c","o",
         "n","n","e","c","t","i","o","n",":","\n",
         " "," "," ","p","i","n","g"," ","a","n","t","h","r","o","p","i","c",".","c","o","m","\n",
         "\n",
         "2","."," ","V","e","r","i","f","y"," ","C","l","a","u","d","e"," ","C","L","I"," ","c","a","n"," ",
         "c","o","n","n","e","c","t",":","\n",
         " "," "," ","c","l","a","u","d","e"," ","-","-","v","e","r","s","i","o","n","\n",
         "\n",
         "3","."," ","I","f"," ","b","e","h","i","n","d"," ","a"," ","c","o","r","p","o","r","a","t","e"," ",
         "f","i","r","e","w","a","l","l",","," ","c","o","n","f","i","g","u","r","e"," ","p","r","o","x","y",
         ":","\n",
         " "," "," ","e","x","p","o","r","t"," ","H","T","T","P","S","_","P","R","O","X","Y","=","h","t","t",
         "p",":","/","/","y","o","u","r","-","p","r","o","x","y",":","p","o","r","t","\n",
         "\n",
         "4","."," ","T","r","y"," ","a","g","a","i","n"," ","i","n"," ","a"," ","f","e","w"," ","m","o","m",
         "e","n","t","s"," ","i","f"," ","t","h","e"," ","s","e","r","v","i","c","e"," ","i","s"," ","d","o",
         "w","n","\n">>
    \o Rule

\* the message thrown for an access error (claude-code.js 325-339)
AccessDeniedMessage ==
       Rule
    \o <<"\n",
         " "," ","A","c","c","e","s","s"," ","D","e","n","i","e","d","\n">>
    \o Rule
    \o <<"\n",
         "\n",
         "C","l","a","u","d","e"," ","C","o","d","e"," ","d","e","n","i","e","d"," ","a","c","c","e","s","s",
         " ","t","o"," ","t","h","i","s"," ","o","p","e","r","a","t","i","o","n","."," ","T","h","i","s"," ",
         "c","o","u","l","d"," ","m","e","a","n",":","\n",
         "\n",
         "1","."," ","Y","o","u","r"," ","a","u","t","h","e","n","t","i","c","a","t","i","o","n"," ","h","a",
         "s"," ","e","x","p","i","r","e","d",":","\n",
         " "," "," ","c","l","a","u","d","e"," ","l","o","g","i","n","\n",
         "\n",
         "2","."," ","Y","o","u","r"," ","a","c","c","o","u","n","t"," ","d","o","e","s","n","'","t"," ","h",
         "a","v","e"," ","a","c","c","e","s","s"," ","t","o"," ","t","h","i","s"," ","m","o","d","e","l",
         "\n",
         "\n",
         "3","."," ","R","a","t","e"," ","l","i","m","i","t","s"," ","o","r"," ","u","s","a","g","e"," ","l",
         "i","m","i","t","s"," ","h","a","v","e"," ","b","e","e","n"," ","e","x","c","e","e","d","e","d",
         "\n",
         "\n",
         "T","r","y"," ","r","u","n","n","i","n","g"," ","\"","c","l","a","u","d","e"," ","l","o","g","i",
         "n","\""," ","t","o"," ","r","e","f","r","e","s","h"," ","y","o","u","r"," ","a","u","t","h","e",
         "n","t","i","c","a","t","i","o","n",".","\n">>
    \o Rule

\* the hint appended to the message of every other error (claude-code.js 347-348)
AuthHintSuffix ==
       <<"\n",
         "\n",
         "I","f"," ","t","h","i","s"," ","a","p","p","e","a","r","s"," ","t","o"," ","b","e"," ","a","n"," ",
         "a","u","t","h","e","n","t","i","c","a","t","i","o","n"," ","i","s","s","u","e",","," ","t","r","y",
         " ","r","u","n","n","i","n","g",":","\n",
         " "," ","c","l","a","u","d","e"," ","l","o","g","i","n">>

\* the message of the error the three operations throw when the probe fails (claude-code.js 423-423)
CliNotInstalledMessage ==
       <<"C","l","a","u","d","e"," ","C","o","d","e"," ","C","L","I"," ","i","s"," ","n","o","t"," ","i","n",
         "s","t","a","l","l","e","d">>

----------------------------------------------------------------------------
(* Thrown values: [name, message, code, status], each optional.  A value
   with a name is an Error object (its toString is Error.prototype.toString)
   and name is its name property; a value with no name is a plain object
   (its toString is Object.prototype.toString). *)

ErrorName == <<"E","r","r","o","r">>
TypeErrorName == <<"T","y","p","e","E","r","r","o","r">>
AbortErrorName == <<"A","b","o","r","t","E","r","r","o","r">>
ObjectObject == <<"[","o","b","j","e","c","t"," ","O","b","j","e","c","t","]">>

\* new Error(message): name "Error", message set, no code, no status
NewError(message) ==
    [name |-> Some(ErrorName), message |-> Some(message), code |-> Undefined,
     status |-> Undefined]

\* the same without toLowerCase: error.message || ''
lowerOrEmpty_asIs(opt) == IF opt = Undefined THEN <<>> ELSE opt[1]

\* error.message?.toLowerCase() || ''   and   error.code?.toLowerCase() || ''
lowerOrEmpty(opt) == IF opt = Undefined THEN <<>> ELSE toLowerCase(opt[1])

\* error.message?.includes(kw): undefined (falsy) when there is no message
messageIncludes(error, kw) == error.message # Undefined /\ includes(error.message[1], kw)

\* isRetryableError(error)
isRetryableError(error) ==
    LET errorMessage == lowerOrEmpty(error.message)
        errorCode == lowerOrEmpty(error.code)
    IN
    \/ includes(errorMessage, <<"s","p","a","w","n">>)
    \/ includes(errorMessage, <<"e","p","i","p","e">>)
    \/ includes(errorMessage, <<"s","i","g","t","e","r","m">>)
    \/ includes(errorMessage, <<"s","i","g","k","i","l","l">>)
    \/ includes(errorMessage, <<"e","c","o","n","n","r","e","s","e","t">>)
    \/ includes(errorMessage, <<"s","o","c","k","e","t"," ","h","a","n","g"," ","u","p">>)
    \/ includes(errorMessage, <<"n","e","t","w","o","r","k">>)
    \/ includes(errorMessage, <<"r","a","t","e"," ","l","i","m","i","t">>)
    \/ includes(errorMessage, <<"o","v","e","r","l","o","a","d","e","d">>)
    \/ includes(errorMessage, <<"t","e","m","p","o","r","a","r","i","l","y"," ","u","n","a","v","a","i","l","a","b","l","e">>)
    \/ errorCode = <<"e","a","g","a","i","n">>
    \/ errorCode = <<"e","m","f","i","l","e">>
    \/ errorCode = <<"e","n","f","i","l","e">>

----------------------------------------------------------------------------
(* The error classifier *)

\* the condition of the authentication branch (150-162)
isAuthError(error) ==
    \/ messageIncludes(error, <<"n","o","t"," ","a","u","t","h","e","n","t","i","c","a","t","e","d">>)
    \/ messageIncludes(error, <<"A","U","T","H","_","R","E","Q","U","I","R","E","D">>)
    \/ messageIncludes(error, <<"a","u","t","h","e","n","t","i","c","a","t","i","o","n">>)
    \/ messageIncludes(error, <<"u","n","a","u","t","h","o","r","i","z","e","d">>)
    \/ messageIncludes(error, <<"s","e","s","s","i","o","n"," ","e","x","p","i","r","e","d">>)
    \/ messageIncludes(error, <<"i","n","v","a","l","i","d"," ","t","o","k","e","n">>)
    \/ messageIncludes(error, <<"l","o","g","i","n"," ","r","e","q","u","i","r","e","d">>)
    \/ messageIncludes(error, <<"p","l","e","a","s","e"," ","a","u","t","h","e","n","t","i","c","a","t","e">>)
    \/ error.code = Some(<<"A","U","T","H","_","R","E","Q","U","I","R","E","D">>)
    \/ error.code = Some(<<"U","N","A","U","T","H","O","R","I","Z","E","D">>)
    \/ error.status = Some(401)

\* the condition of the CLI-not-found branch (182-187)
isCliNotFoundError(error) ==
    \/ messageIncludes(error, <<"c","o","m","m","a","n","d"," ","n","o","t"," ","f","o","u","n","d">>)
    \/ messageIncludes(error, <<"E","N","O","E","N","T">>)
    \/ messageIncludes(error, <<"n","o","t"," ","f","o","u","n","d">>)
    \/ messageIncludes(error, <<"s","p","a","w","n"," ","c","l","a","u","d","e">>)

\* the condition of the permission branch (213-216)
isPermissionError(error) ==
    \/ messageIncludes(error, <<"E","A","C","C","E","S">>)
    \/ messageIncludes(error, <<"p","e","r","m","i","s","s","i","o","n"," ","d","e","n","i","e","d">>)

\* the condition of the timeout branch (242-248)
isTimeoutError(error) ==
    \/ messageIncludes(error, <<"t","i","m","e","o","u","t">>)
    \/ messageIncludes(error, <<"E","T","I","M","E","D","O","U","T">>)
    \/ messageIncludes(error, <<"t","i","m","e","d"," ","o","u","t">>)
    \/ error.code = Some(<<"E","T","I","M","E","D","O","U","T">>)
    \/ error.code = Some(<<"T","I","M","E","O","U","T">>)

\* the condition of the network branch (280-289)
isNetworkError(error) ==
    \/ messageIncludes(error, <<"E","C","O","N","N","R","E","F","U","S","E","D">>)
    \/ messageIncludes(error, <<"E","C","O","N","N","R","E","S","E","T">>)
    \/ messageIncludes(error, <<"E","N","O","T","F","O","U","N","D">>)
    \/ messageIncludes(error, <<"n","e","t","w","o","r","k">>)
    \/ messageIncludes(error, <<"s","o","c","k","e","t"," ","h","a","n","g"," ","u","p">>)
    \/ error.code = Some(<<"E","C","O","N","N","R","E","F","U","S","E","D">>)
    \/ error.code = Some(<<"E","C","O","N","N","R","E","S","E","T">>)
    \/ error.code = Some(<<"E","N","O","T","F","O","U","N","D">>)

\* the condition of the access branch (318-323)
isAccessError(error) ==
    \/ messageIncludes(error, <<"a","c","c","e","s","s"," ","d","e","n","i","e","d">>)
    \/ messageIncludes(error, <<"f","o","r","b","i","d","d","e","n">>)
    \/ messageIncludes(error, <<"n","o","t"," ","a","u","t","h","o","r","i","z","e","d">>)
    \/ error.status = Some(403)

\* error.toString(), dispatched on the value thrown.  A plain object answers
\* "[object Object]".  An Error answers by Error.prototype.toString: with
\* msg the message, or "" when it is undefined, the message when the name is
\* empty, the name when the message is empty, name + ": " + msg otherwise
errorToString(error) ==
    IF error.name = Undefined THEN ObjectObject
    ELSE LET name == error.name[1]
             msg == IF error.message = Undefined THEN <<>> ELSE error.message[1]
         IN  IF name = <<>> THEN msg
             ELSE IF msg = <<>> THEN name
             ELSE name \o <<":"," ">> \o msg

\* super.handleError(operation, error) of the base provider: raises the
\* generic error, which carries the message it is given
baseHandleError(operation, error) == NewError(error.message[1])

\* a classifier whose last branch throws the error it was given, as it is
handleError_rethrowsOther(operation, error) ==
    IF isAuthError(error) THEN NewError(AuthRequiredMessage)
    ELSE IF isCliNotFoundError(error) THEN NewError(CliNotFoundMessage)
    ELSE IF isPermissionError(error) THEN NewError(PermissionErrorMessage)
    ELSE IF isTimeoutError(error) THEN NewError(TimeoutMessage)
    ELSE IF isNetworkError(error) THEN NewError(NetworkErrorMessage)
    ELSE IF isAccessError(error) THEN NewError(AccessDeniedMessage)
    ELSE error

\* handleError(operation, error): the error it throws
handleError(operation, error) ==
    IF isAuthError(error) THEN NewError(AuthRequiredMessage)
    ELSE IF isCliNotFoundError(error) THEN NewError(CliNotFoundMessage)
    ELSE IF isPermissionError(error) THEN NewError(PermissionErrorMessage)
    ELSE IF isTimeoutError(error) THEN NewError(TimeoutMessage)
    ELSE IF isNetworkError(error) THEN NewError(NetworkErrorMessage)
    ELSE IF isAccessError(error) THEN NewError(AccessDeniedMessage)
    ELSE LET originalError ==
                 IF error.message # Undefined /\ error.message # Some(<<>>)
                 THEN error.message[1]
                 ELSE errorToString(error)
             enhancedError == NewError(originalError \o AuthHintSuffix)
         IN  baseHandleError(operation, enhancedError)

----------------------------------------------------------------------------
(* The adapter: constructor, probe, validation *)

\* this.supportedModels
supportedModels == <<<<"o","p","u","s">>, <<"s","o","n","n","e","t">>>>

\* maxRetries = 3, the default the three operations run withRetry with
DefaultMaxRetries == 3

\* const baseDelay = 1000
baseDelay == 1000

\* Array.prototype.includes
arrayIncludes(arr, x) == \E i \in 1..Len(arr) : arr[i] = x

\* Array.prototype.join
RECURSIVE join(_, _)
join(arr, sep) ==
    IF Len(arr) = 0 THEN <<>>
    ELSE IF Len(arr) = 1 THEN arr[1]
    ELSE arr[1] \o sep \o join(Tail(arr), sep)

\* a probe that trusts the cache only when it holds true: if (this.cliInstalled)
checkCLIInstallation_truthy(cache, present) ==
    IF cache = Some(TRUE)
    THEN [ret |-> TRUE, cliInstalled |-> cache, executed |-> FALSE, threw |-> FALSE]
    ELSE [ret |-> present, cliInstalled |-> Some(present), executed |-> TRUE,
          threw |-> FALSE]

\* a probe that always runs the external check
checkCLIInstallation_uncached(cache, present) ==
    [ret |-> present, cliInstalled |-> Some(present), executed |-> TRUE, threw |-> FALSE]

\* a probe whose catch block throws the error of the failed check again
checkCLIInstallation_rethrows(cache, present) ==
    IF cache # Undefined
    THEN [ret |-> cache[1], cliInstalled |-> cache, executed |-> FALSE, threw |-> FALSE]
    ELSE [ret |-> present, cliInstalled |-> Some(present), executed |-> TRUE,
          threw |-> ~present]

\* checkCLIInstallation() on the cache `cache`, when the external check would
\* succeed iff `present` (execSync throws otherwise, whatever the reason):
\* the value returned, the cache afterwards, whether execSync ran, and
\* whether the call raised an error instead of returning
checkCLIInstallation(cache, present) ==
    IF cache # Undefined
    THEN [ret |-> cache[1], cliInstalled |-> cache, executed |-> FALSE, threw |-> FALSE]
    ELSE [ret |-> present, cliInstalled |-> Some(present), executed |-> TRUE,
          threw |-> FALSE]

\* validateParams(params): the error it throws, <<>> when it returns
validateParams(params) ==
    IF ~arrayIncludes(supportedModels, params.modelId)
    THEN Some(NewError(
             <<"M","o","d","e","l"," ","'">> \o params.modelId
             \o <<"'"," ","i","s"," ","n","o","t"," ","s","u","p","p","o","r","t","e","d"," ","b","y"," ","C","l","a","u","d","e"," ","C","o","d","e"," ","C","L","I","."," ">>
             \o <<"S","u","p","p","o","r","t","e","d"," ","m","o","d","e","l","s"," ","a","r","e",":"," ">>
             \o join(supportedModels, <<","," ">>)))
    ELSE Undefined

----------------------------------------------------------------------------
(* The retry executor *)

\* a loop that stops one attempt early: attempt < maxRetries
loopContinues_strict(attempt, maxRetries) == attempt < maxRetries

\* for (...; attempt <= maxRetries; ...)
loopContinues(attempt, maxRetries) == attempt <= maxRetries

\* a retry test that reads the attempt index of every request in flight
shouldRetry_sharedAttempts(error, attempt, maxRetries) ==
    /\ isRetryableError(error)
    /\ \A r \in DOMAIN req : req[r].attempt < maxRetries

\* a retry test that forgets the kind of the error
shouldRetry_anyError(error, attempt, maxRetries) == attempt < maxRetries

\* a retry test that backs off after the last attempt too
shouldRetry_inclusive(error, attempt, maxRetries) ==
    isRetryableError(error) /\ attempt <= maxRetries

\* this.isRetryableError(error) && attempt < maxRetries
shouldRetry(error, attempt, maxRetries) ==
    isRetryableError(error) /\ attempt < maxRetries

\* a linear backoff: baseDelay * (attempt + 1)
backoffDelay_linear(attempt) == baseDelay * (attempt + 1)

\* baseDelay * Math.pow(2, attempt)
backoffDelay(attempt) == baseDelay * (2 ^ attempt)

\* a backoff timer that never fires
timerDue_never(elapsed, delay) == FALSE

\* setTimeout(resolve, delay): the timer may fire once delay ms have elapsed
timerDue(elapsed, delay) == elapsed >= delay

\* throw new Error(lastError.message): the code and the status are lost
rethrown_wrapped(lastError) ==
    IF lastError = Undefined THEN lastError
    ELSE Some([lastError[1] EXCEPT !.code = Undefined, !.status = Undefined])

\* throw lastError
rethrown(lastError) == lastError

\* a gate that lets every request through
gateThrows_never(installed) == FALSE

\* if (!this.checkCLIInstallation()) throw ...
gateThrows(installed) == ~installed

\* the outcome of one invocation of fn: a returned value or a thrown error
Return(v) == [returns |-> Some(v), throws |-> Undefined]
Throw(e) == [returns |-> Undefined, throws |-> Some(e)]

\* a request slot with no call in progress
IdleReq ==
    [pc |-> "idle", op |-> "none", modelId |-> <<>>, maxRetries |-> 0,
     script |-> <<>>, attempt |-> 0, lastError |-> Undefined,
     fnState |-> "none", fnRejection |-> Undefined, fnError |-> Undefined,
     delay |-> 0, elapsed |-> 0, waited |-> <<>>, sleptFor |-> <<>>,
     calls |-> 0, delegateCalls |-> 0, clientCalls |-> 0, probeRuns |-> 0,
     rejections |-> 0, result |-> Undefined, thrown |-> Undefined]

\* fn's promise is already rejected with `error` when withRetry awaits it
rejected(rec, error) ==
    [rec EXCEPT !.pc = "pending", !.fnState = "rejected", !.fnRejection = Some(error)]

\* super.generateText / super.streamText / super.generateObject up to its
\* first suspension: validate the parameters, then get the client and start
\* the SDK call; a failure goes through this.handleError
superOperation(rec) ==
    LET d == [rec EXCEPT !.delegateCalls = @ + 1]
        v == validateParams([modelId |-> rec.modelId])
    IN  IF v # Undefined
        THEN rejected([d EXCEPT !.rejections = @ + 1],
                      handleError(rec.op, v[1]))
        ELSE [d EXCEPT !.clientCalls = @ + 1, !.pc = "pending", !.fnState = "client"]

\* the fn of generateText / streamText / generateObject up to its first
\* suspension, given what checkCLIInstallation answered
operationFn(rec, p) ==
    LET c == [rec EXCEPT !.probeRuns = @ + (IF p.executed THEN 1 ELSE 0)]
    IN  IF gateThrows(p.ret)
        THEN rejected(c, NewError(CliNotInstalledMessage))
        ELSE superOperation(c)

\* the catch block and the end of withRetry, after fn settled with outcome o
afterFn(rec, o) ==
    IF o.throws = Undefined
    THEN [rec EXCEPT !.pc = "returned", !.result = o.returns, !.fnState = "none",
                     !.fnRejection = Undefined]
    ELSE LET error == o.throws[1]
             r1 == [rec EXCEPT !.lastError = Some(error), !.fnError = Some(error),
                               !.fnState = "none", !.fnRejection = Undefined]
         IN  IF shouldRetry(error, rec.attempt, rec.maxRetries)
             THEN [r1 EXCEPT !.pc = "sleeping",
                             !.delay = backoffDelay(rec.attempt),
                             !.waited = Append(@, backoffDelay(rec.attempt)),
                             !.elapsed = 0]
             ELSE [r1 EXCEPT !.pc = "thrown", !.thrown = rethrown(r1.lastError)]

----------------------------------------------------------------------------
(* Inputs *)

\* the largest maxRetries a direct call of withRetry is given
MaxRetries == 3

\* the request slots of the adapter
NumReqs == 1

Reqs == 1..NumReqs

Ops == {"generateText", "streamText", "generateObject"}

ModelSonnet == <<"s","o","n","n","e","t">>
ModelHaiku == <<"h","a","i","k","u">>
ModelNetwork == <<"n","e","t","w","o","r","k">>
ModelIds == {ModelSonnet, ModelHaiku, ModelNetwork}

\* "rate limit exceeded": retryable by its message
ErrRateLimit == NewError(<<"r","a","t","e"," ","l","i","m","i","t"," ","e","x","c","e","e","d","e","d">>)
\* an error with no message and code EAGAIN: retryable by its code
ErrEagain ==
    [name |-> Some(ErrorName), message |-> Undefined, code |-> Some(<<"E","A","G","A","I","N">>),
     status |-> Undefined]
\* "invalid input" with code EINVAL and status 400: not retryable
ErrInvalid ==
    [name |-> Some(ErrorName), message |-> Some(<<"i","n","v","a","l","i","d"," ","i","n","p","u","t">>),
     code |-> Some(<<"E","I","N","V","A","L">>), status |-> Some(400)]
\* "not authenticated": an authentication error of the SDK
ErrNotAuthenticated == NewError(<<"n","o","t"," ","a","u","t","h","e","n","t","i","c","a","t","e","d">>)

\* what an invocation of the fn of a direct withRetry call may do
FnOutcomes == {Return("resultA"), Throw(ErrRateLimit), Throw(ErrEagain), Throw(ErrInvalid)}

\* fn as a script: the outcome of its i-th invocation, for one invocation
\* more than a call of withRetry with maxRetries = m makes
Scripts(m) == [1..(m + 2) -> FnOutcomes]

\* what the SDK call of an operation may do
SdkOutcomes == {Return("resultA"), Throw(ErrRateLimit), Throw(ErrNotAuthenticated)}

----------------------------------------------------------------------------
(* Actions *)

\* the bookkeeping of one call of checkCLIInstallation that answered p
RecordProbe(p) ==
    /\ cliInstalled' = p.cliInstalled
    /\ probes' = probes + (IF p.executed THEN 1 ELSE 0)
    /\ firstProbe' = IF p.executed /\ firstProbe = Undefined THEN Some(p.ret) ELSE firstProbe
    /\ returned' = (IF p.threw THEN returned ELSE returned \cup {p.ret})
    /\ cacheHit' = (cacheHit \/ ~p.executed)
    /\ probeThrew' = (probeThrew \/ p.threw)

\* withRetry invokes fn: `return await fn()` up to the suspension
Invoke(r, rec) ==
    LET c == [rec EXCEPT !.calls = @ + 1]
    IN  IF rec.op = "withRetry"
        THEN /\ req' = [req EXCEPT ![r] = [c EXCEPT !.pc = "pending", !.fnState = "script"]]
             /\ UNCHANGED adapterVars
        ELSE LET p == checkCLIInstallation(cliInstalled, cliPresent)
             IN  /\ RecordProbe(p)
                 /\ req' = [req EXCEPT ![r] = operationFn(c, p)]

\* the loop of withRetry at `attempt`: invoke fn, or leave the loop and throw
EnterLoop(r, rec) ==
    IF loopContinues(rec.attempt, rec.maxRetries)
    THEN Invoke(r, rec)
    ELSE /\ req' = [req EXCEPT ![r] = [rec EXCEPT !.pc = "thrown",
                                                 !.thrown = rethrown(rec.lastError)]]
         /\ UNCHANGED adapterVars

\* a caller calls generateText, streamText or generateObject
Call(r, op, modelId) ==
    /\ req[r].pc = "idle"
    /\ EnterLoop(r, [IdleReq EXCEPT !.op = op, !.modelId = modelId,
                                    !.maxRetries = DefaultMaxRetries])
    /\ UNCHANGED <<cliPresent, classifyVars>>

\* a caller calls withRetry(operation, fn, maxRetries) with the fn `script`
CallWithRetry(r, m, script) ==
    /\ req[r].pc = "idle"
    /\ EnterLoop(r, [IdleReq EXCEPT !.op = "withRetry", !.maxRetries = m,
                                    !.script = script])
    /\ UNCHANGED <<cliPresent, classifyVars>>

\* what the awaited fn may settle with
fnOutcomes(rec) ==
    IF rec.fnState = "script" THEN {rec.script[rec.calls]}
    ELSE IF rec.fnState = "rejected" THEN {Throw(rec.fnRejection[1])}
    ELSE {IF o.throws = Undefined THEN o
          ELSE Throw(handleError(rec.op, o.throws[1])) : o \in SdkOutcomes}

\* fn settles and withRetry resumes: return, back off, or throw
Settle(r) ==
    /\ req[r].pc = "pending"
    /\ \E o \in fnOutcomes(req[r]) : req' = [req EXCEPT ![r] = afterFn(req[r], o)]
    /\ UNCHANGED <<adapterVars, cliPresent, classifyVars>>

\* the backoff timer fires and the loop goes on with the next attempt
TimerFire(r) ==
    /\ req[r].pc = "sleeping"
    /\ timerDue(req[r].elapsed, req[r].delay)
    /\ EnterLoop(r, [req[r] EXCEPT !.attempt = @ + 1,
                                   !.sleptFor = Append(@, req[r].elapsed)])
    /\ UNCHANGED <<cliPresent, classifyVars>>

\* baseDelay ms pass, seen by every armed timer
Tick ==
    /\ \E r \in DOMAIN req : req[r].pc = "sleeping" /\ req[r].elapsed < req[r].delay
    /\ req' = [r \in DOMAIN req |->
                 IF req[r].pc = "sleeping" /\ req[r].elapsed < req[r].delay
                 THEN [req[r] EXCEPT !.elapsed = @ + baseDelay]
                 ELSE req[r]]
    /\ UNCHANGED <<adapterVars, cliPresent, classifyVars>>

\* the caller has its result or its error; the slot is free again
Release(r) ==
    /\ req[r].pc \in {"returned", "thrown"}
    /\ req' = [req EXCEPT ![r] = IdleReq]
    /\ UNCHANGED <<adapterVars, cliPresent, classifyVars>>

\* a direct call of checkCLIInstallation()
CheckCLI ==
    /\ RecordProbe(checkCLIInstallation(cliInstalled, cliPresent))
    /\ UNCHANGED <<req, cliPresent, classifyVars>>

\* the CLI is installed on, or removed from, the system
EnvChange ==
    /\ cliPresent' = ~cliPresent
    /\ UNCHANGED <<adapterVars, req, classifyVars>>

\* the state after the constructor
Init ==
    /\ cliInstalled = Undefined
    /\ cliPresent \in BOOLEAN
    /\ probes = 0
    /\ firstProbe = Undefined
    /\ returned = {}
    /\ cacheHit = FALSE
    /\ probeThrew = FALSE
    /\ req = [r \in Reqs |-> IdleReq]
    /\ classifyIn = NewError(<<>>)
    /\ classifyOut = Undefined
    /\ retryOut = Undefined

Next ==
    \/ \E r \in Reqs, op \in Ops, m \in ModelIds : Call(r, op, m)
    \/ \E r \in Reqs : Settle(r)
    \/ \E r \in Reqs : TimerFire(r)
    \/ \E r \in Reqs : Release(r)
    \/ Tick
    \/ CheckCLI
    \/ EnvChange

\* the adapter under any sequence of operations and probes
Spec == Init /\ [][Next]_vars

NextRetry ==
    \/ \E m \in 0..MaxRetries : \E s \in Scripts(m) : CallWithRetry(1, m, s)
    \/ Settle(1)
    \/ TimerFire(1)
    \/ Tick

InitRetry ==
    /\ cliInstalled = Undefined
    /\ cliPresent = TRUE
    /\ probes = 0
    /\ firstProbe = Undefined
    /\ returned = {}
    /\ cacheHit = FALSE
    /\ probeThrew = FALSE
    /\ req = [r \in Reqs |-> IdleReq]
    /\ classifyIn = NewError(<<>>)
    /\ classifyOut = Undefined
    /\ retryOut = Undefined

\* one direct call of withRetry with any fn and any maxRetries
SpecRetry == InitRetry /\ [][NextRetry]_vars

----------------------------------------------------------------------------
(* handleError and isRetryableError called directly *)

\* the messages of the errors classified: <<>> is an error with no message
ClassifyMessages ==
    {Undefined, Some(<<>>),
     Some(<<"n","e","t","w","o","r","k"," ","a","u","t","h","_","r","e","q","u","i","r","e","d"," ","f","a","i","l","u","r","e">>),
     Some(<<"n","e","t","w","o","r","k"," ","A","U","T","H","_","R","E","Q","U","I","R","E","D"," ","f","a","i","l","u","r","e">>),
     Some(<<"r","a","t","e"," ","l","i","m","i","t"," ","e","x","c","e","e","d","e","d">>),
     Some(<<"E","N","O","E","N","T">>),
     Some(<<"e","n","o","e","n","t">>),
     Some(<<"P","e","r","m","i","s","s","i","o","n"," ","D","e","n","i","e","d">>),
     Some(<<"p","e","r","m","i","s","s","i","o","n"," ","d","e","n","i","e","d">>),
     Some(<<"r","e","q","u","e","s","t"," ","t","i","m","e","d"," ","o","u","t">>),
     Some(<<"s","o","c","k","e","t"," ","h","a","n","g"," ","u","p">>),
     Some(<<"a","c","c","e","s","s"," ","d","e","n","i","e","d">>),
     Some(<<"s","p","a","w","n"," ","c","l","a","u","d","e"," ","E","N","O","E","N","T">>),
     Some(<<"i","n","v","a","l","i","d"," ","i","n","p","u","t">>),
     Some(<<"w","r","i","t","e"," ","E","P","I","P","E">>),
     Some(<<"k","i","l","l","e","d"," ","b","y"," ","S","I","G","T","E","R","M">>),
     Some(<<"p","r","o","c","e","s","s"," ","g","o","t"," ","s","i","g","k","i","l","l">>),
     Some(<<"r","e","a","d"," ","E","C","O","N","N","R","E","S","E","T">>),
     Some(<<"O","v","e","r","l","o","a","d","e","d">>),
     Some(<<"s","e","r","v","i","c","e"," ","t","e","m","p","o","r","a","r","i","l","y"," ","u","n","a","v","a","i","l","a","b","l","e">>)}

ClassifyCodes ==
    {Undefined,
     Some(<<"A","U","T","H","_","R","E","Q","U","I","R","E","D">>),
     Some(<<"E","T","I","M","E","D","O","U","T">>),
     Some(<<"E","C","O","N","N","R","E","S","E","T">>),
     Some(<<"E","A","G","A","I","N">>),
     Some(<<"e","a","g","a","i","n">>),
     Some(<<"E","M","F","I","L","E">>),
     Some(<<"E","N","F","I","L","E">>)}

ClassifyStatuses == {Undefined, Some(401), Some(403), Some(500)}

\* a plain object, an Error, a TypeError, an error renamed AbortError, and
\* an error whose name was set to ""
ClassifyNames ==
    {Undefined, Some(ErrorName), Some(TypeErrorName), Some(AbortErrorName), Some(<<>>)}

ClassifyInputs ==
    [name : ClassifyNames, message : ClassifyMessages, code : ClassifyCodes,
     status : ClassifyStatuses]

\* the category of the error handleError threw, read off its message
categoryOf(thrown) ==
    IF thrown.message = Some(AuthRequiredMessage) THEN "AuthRequired"
    ELSE IF thrown.message = Some(CliNotFoundMessage) THEN "CliMissing"
    ELSE IF thrown.message = Some(PermissionErrorMessage) THEN "PermissionDenied"
    ELSE IF thrown.message = Some(TimeoutMessage) THEN "Timeout"
    ELSE IF thrown.message = Some(NetworkErrorMessage) THEN "NetworkError"
    ELSE IF thrown.message = Some(AccessDeniedMessage) THEN "AccessDenied"
    ELSE "Unclassified"

\* handleError(operation, classifyIn)
CallHandleError ==
    /\ classifyOut = Undefined
    /\ classifyOut' = Some(handleError("classify", classifyIn))
    /\ UNCHANGED <<adapterVars, cliPresent, req, classifyIn, retryOut>>

\* isRetryableError(classifyIn)
CallIsRetryableError ==
    /\ retryOut = Undefined
    /\ retryOut' = Some(isRetryableError(classifyIn))
    /\ UNCHANGED <<adapterVars, cliPresent, req, classifyIn, classifyOut>>

InitClassify ==
    /\ cliInstalled = Undefined
    /\ cliPresent = TRUE
    /\ probes = 0
    /\ firstProbe = Undefined
    /\ returned = {}
    /\ cacheHit = FALSE
    /\ probeThrew = FALSE
    /\ req = [r \in Reqs |-> IdleReq]
    /\ classifyIn \in ClassifyInputs
    /\ classifyOut = Undefined
    /\ retryOut = Undefined

NextClassify == CallHandleError \/ CallIsRetryableError

\* the classifier and the retryability predicate on every input error
SpecClassify == InitClassify /\ [][NextClassify]_vars

----------------------------------------------------------------------------
(* Properties of the retry executor, under SpecRetry *)

\* the index of the first invocation of the script that succeeds, 0 if none
firstSuccess(script) ==
    LET S == {i \in 1..Len(script) : script[i].throws = Undefined}
    IN  IF S = {} THEN 0 ELSE CHOOSE i \in S : \A j \in S : i <= j

\* min(maxRetries + 1, k), k the index of the first success (none: infinity)
expectedCalls(m, script) ==
    LET k == firstSuccess(script)
    IN  IF k = 0 \/ k > m + 1 THEN m + 1 ELSE k

\* every failure among the first n invocations of the script is retryable
failuresRetryable(script, n) ==
    \A i \in 1..n : script[i].throws # Undefined => isRetryableError(script[i].throws[1])

finished(rec) == rec.pc \in {"returned", "thrown"}

\* C1: when every failure of fn is retryable, withRetry invokes fn exactly
\* min(maxRetries + 1, k) times, k the index of the first success; it never
\* invokes fn after a success, and it returns the result of that success.
C1_AttemptCount ==
    LET R == req[1]
        n == expectedCalls(R.maxRetries, R.script)
        k == firstSuccess(R.script)
    IN  (R.op = "withRetry" /\ failuresRetryable(R.script, n)) =>
            /\ R.calls <= n
            /\ finished(R) => R.calls = n
            /\ (finished(R) /\ k # 0 /\ k <= R.maxRetries + 1) =>
                   (R.pc = "returned" /\ R.result = R.script[k].returns)
            /\ (finished(R) /\ (k = 0 \/ k > R.maxRetries + 1)) => R.pc = "thrown"

\* fn failed twice with retryable errors, succeeded the third time, and
\* withRetry returned after three invocations although maxRetries is 3
C1_Witness ==
    LET R == req[1]
    IN  /\ R.op = "withRetry" /\ R.maxRetries = 3 /\ R.pc = "returned"
        /\ R.script[1] = Throw(ErrRateLimit) /\ R.script[2] = Throw(ErrEagain)
        /\ R.script[3] = Return("resultA") /\ R.script[4] = Throw(ErrRateLimit)
        /\ R.calls = 3

\* C2: the delay waited after attempt i is 1000 * 2^i ms; a delay is waited
\* only when a further attempt follows (never after the last attempt, a
\* success or a non-retryable failure); and the next invocation of fn starts
\* only after the whole delay has elapsed.
C2_BackoffDelays ==
    LET R == req[1]
    IN  R.op = "withRetry" =>
            /\ \A i \in 1..Len(R.waited) : R.waited[i] = 1000 * (2 ^ (i - 1))
            /\ R.calls = R.attempt + 1
            /\ Len(R.waited) = (IF R.pc = "sleeping" THEN R.calls ELSE R.calls - 1)
            /\ R.pc = "sleeping" => R.attempt < R.maxRetries
            /\ Len(R.sleptFor) = R.calls - 1
            /\ \A i \in 1..Len(R.sleptFor) : R.sleptFor[i] >= R.waited[i]

\* four attempts, all failed with retryable errors: the delays waited were
\* 1000, 2000, 4000 and none after the last attempt
C2_Witness ==
    LET R == req[1]
    IN  /\ R.op = "withRetry" /\ R.pc = "thrown" /\ R.calls = 4
        /\ R.waited = <<1000, 2000, 4000>>
        /\ R.sleptFor = <<1000, 2000, 4000>>

\* C3: when the first invocation of fn throws a non-retryable error,
\* withRetry invokes fn exactly once, waits no delay and throws that very
\* error (message, code and status unchanged), whatever maxRetries is.
C3_NonRetryableOnce ==
    LET R == req[1]
    IN  (/\ R.op = "withRetry"
         /\ R.script[1].throws # Undefined
         /\ ~isRetryableError(R.script[1].throws[1])) =>
            /\ R.calls = 1
            /\ R.waited = <<>>
            /\ R.pc \in {"pending", "thrown"}
            /\ R.pc = "thrown" => R.thrown = R.script[1].throws

\* withRetry with maxRetries = 3 threw the non-retryable error of the first
\* invocation after that single invocation
C3_Witness ==
    LET R == req[1]
    IN  /\ R.op = "withRetry" /\ R.maxRetries = 3 /\ R.pc = "thrown"
        /\ R.script[1] = Throw(ErrInvalid) /\ R.thrown = Some(ErrInvalid)
        /\ R.calls = 1

\* C4: with maxRetries = 0, withRetry invokes fn exactly once whether the
\* error is retryable or not, and no backoff delay is computed or waited.
C4_ZeroRetries ==
    LET R == req[1]
    IN  (R.op = "withRetry" /\ R.maxRetries = 0) =>
            /\ R.calls = 1
            /\ R.pc # "sleeping"
            /\ R.delay = 0
            /\ R.waited = <<>>
            /\ finished(R) =>
                   IF R.script[1].throws = Undefined
                   THEN R.pc = "returned"
                   ELSE R.pc = "thrown" /\ R.thrown = R.script[1].throws

\* withRetry with maxRetries = 0 threw a retryable error without retrying
C4_Witness ==
    LET R == req[1]
    IN  /\ R.op = "withRetry" /\ R.maxRetries = 0 /\ R.pc = "thrown"
        /\ R.thrown = Some(ErrRateLimit) /\ isRetryableError(ErrRateLimit)
        /\ R.calls = 1

\* C13: when withRetry stops on exhausted attempts or on a non-retryable
\* error of a later attempt, it throws the error of the most recent
\* invocation of fn, unchanged, never the error of an earlier attempt.
C13_LastErrorThrown ==
    LET R == req[1]
    IN  (R.op = "withRetry" /\ R.pc = "thrown") =>
            /\ R.calls >= 1
            /\ R.thrown = R.script[R.calls].throws
            /\ R.thrown # Undefined
            /\ R.thrown = R.fnError

\* three attempts failed with "rate limit exceeded", the fourth and last
\* with the code EAGAIN, and withRetry threw the EAGAIN error
C13_Witness ==
    LET R == req[1]
    IN  /\ R.op = "withRetry" /\ R.maxRetries = 3 /\ R.pc = "thrown" /\ R.calls = 4
        /\ R.script[1] = Throw(ErrRateLimit) /\ R.script[2] = Throw(ErrRateLimit)
        /\ R.script[3] = Throw(ErrRateLimit) /\ R.script[4] = Throw(ErrEagain)
        /\ R.thrown = Some(ErrEagain)

\* the sum of the delays
RECURSIVE sum(_)
sum(seq) == IF seq = <<>> THEN 0 ELSE Head(seq) + sum(Tail(seq))

\* invocations 1..n of the script all fail with retryable errors
allFailRetryable(script, n) ==
    \A i \in 1..n :
        script[i].throws # Undefined /\ isRetryableError(script[i].throws[1])

\* C17 as claimed: the total backoff of one call never exceeds
\* 1000 * (2^maxRetries - 1) ms, and with maxRetries = 3 it is 7000 ms
\* exactly when all four attempts fail with retryable errors.
C17_TotalWaitAllFourFail ==
    LET R == req[1]
    IN  R.op = "withRetry" =>
            /\ sum(R.waited) <= 1000 * ((2 ^ R.maxRetries) - 1)
            /\ (R.maxRetries = 3 /\ finished(R)) =>
                   ((sum(R.waited) = 7000) <=> allFailRetryable(R.script, 4))

\* C17, amended: the total backoff of one call never exceeds
\* 1000 * (2^maxRetries - 1) ms, and with maxRetries = 3 it is 7000 ms
\* exactly when the first three attempts fail with retryable errors,
\* whatever the fourth attempt does.
C17_TotalWaitBound ==
    LET R == req[1]
    IN  R.op = "withRetry" =>
            /\ sum(R.waited) <= 1000 * ((2 ^ R.maxRetries) - 1)
            /\ (R.maxRetries = 3 /\ finished(R)) =>
                   ((sum(R.waited) = 7000) <=> allFailRetryable(R.script, 3))

\* with maxRetries = 3 the call waited 7000 ms in all and then returned the
\* result of its fourth attempt
C17_Witness ==
    LET R == req[1]
    IN  /\ R.op = "withRetry" /\ R.maxRetries = 3 /\ R.pc = "returned"
        /\ R.calls = 4 /\ sum(R.waited) = 7000

----------------------------------------------------------------------------
(* Termination of withRetry, under SpecRetryFair *)

\* one call of withRetry whose fn always settles and whose timers run:
\* a pending fn eventually settles, time passes while a timer is armed,
\* and a timer that is due eventually fires
SpecRetryFair ==
    /\ InitRetry
    /\ [][NextRetry]_vars
    /\ WF_vars(Settle(1))
    /\ WF_vars(Tick)
    /\ WF_vars(TimerFire(1))

\* C20: withRetry always terminates: once called, with any maxRetries >= 0
\* and any fn whose invocations settle, it eventually returns or throws,
\* and it never makes more than maxRetries+1 invocations of fn nor waits
\* more than maxRetries delays.
C20_Terminates ==
    /\ [](req[1].op = "withRetry" =>
              /\ req[1].calls <= req[1].maxRetries + 1
              /\ Len(req[1].waited) <= req[1].maxRetries)
    /\ (req[1].op = "withRetry") ~> finished(req[1])

\* a call with maxRetries = 2 that ended by throwing after every allowed
\* invocation failed with a retryable error and every delay was waited
C20_Witness ==
    /\ req[1].op = "withRetry" /\ req[1].maxRetries = 2
    /\ req[1].pc = "thrown"
    /\ req[1].calls = 3
    /\ Len(req[1].waited) = 2 /\ Len(req[1].sleptFor) = 2
    /\ req[1].thrown = Some(ErrEagain)

----------------------------------------------------------------------------
(* Concurrent calls of withRetry, under SpecConcurrent *)

\* the largest maxRetries of the concurrent calls
ConcRetries == 2

\* two requests in flight at once
ConcReqs == {1, 2}

ConcOutcomes == {Return("resultA"), Throw(ErrRateLimit), Throw(ErrInvalid)}

\* fn as a script, one outcome for each invocation a call can make
ConcScripts(m) == [1..(m + 1) -> ConcOutcomes]

InitConcurrent ==
    /\ cliInstalled = Undefined
    /\ cliPresent = TRUE
    /\ probes = 0
    /\ firstProbe = Undefined
    /\ returned = {}
    /\ cacheHit = FALSE
    /\ probeThrew = FALSE
    /\ req = [r \in ConcReqs |-> IdleReq]
    /\ classifyIn = NewError(<<>>)
    /\ classifyOut = Undefined
    /\ retryOut = Undefined

\* some caller calls withRetry on the free slot r
StartWithRetry(r) ==
    \E m \in 0..ConcRetries : \E s \in ConcScripts(m) : CallWithRetry(r, m, s)

NextConcurrent ==
    \/ \E r \in ConcReqs : StartWithRetry(r)
    \/ \E r \in ConcReqs : Settle(r)
    \/ \E r \in ConcReqs : TimerFire(r)
    \/ Tick

\* two calls of withRetry on one adapter, interleaved at their await points
SpecConcurrent == InitConcurrent /\ [][NextConcurrent]_vars

\* the invocation at which a call with this script stops: the first that
\* succeeds or fails with a non-retryable error, else the last one allowed
stopIndex(m, script) ==
    LET S == {i \in 1..(m + 1) :
                 \/ script[i].throws = Undefined
                 \/ ~isRetryableError(script[i].throws[1])}
    IN  IF S = {} THEN m + 1 ELSE CHOOSE i \in S : \A j \in S : i <= j

\* C18: concurrent requests are independent in the retry executor: the
\* attempt index and the delay are each request's own, the number of
\* invocations and the result or error of a request are those its own
\* script determines, and a request in backoff never keeps another request
\* from being started or from resuming.
C18_RequestsIndependent ==
    \A r \in ConcReqs :
        req[r].op = "withRetry" =>
            LET R == req[r]
                n == stopIndex(R.maxRetries, R.script)
            IN  /\ R.calls <= n
                /\ R.attempt = R.calls - 1
                /\ R.pc = "sleeping" => R.delay = 1000 * (2 ^ R.attempt)
                /\ finished(R) => R.calls = n
                /\ R.pc = "returned" => R.result = R.script[n].returns
                /\ R.pc = "thrown" => R.thrown = R.script[n].throws
                /\ R.pc = "sleeping" =>
                       \A q \in ConcReqs \ {r} :
                           /\ req[q].pc = "idle" => ENABLED StartWithRetry(q)
                           /\ req[q].pc = "pending" => ENABLED Settle(q)
                           /\ (req[q].pc = "sleeping" /\ req[q].elapsed >= req[q].delay)
                                  => ENABLED TimerFire(q)

\* request 1 has been in its second backoff, of 2000 ms, for 1000 ms;
\* request 2 resumed since then, its second invocation having failed, and
\* began a second backoff of its own
C18_Witness ==
    /\ req[1].pc = "sleeping" /\ req[1].attempt = 1
    /\ req[1].delay = 2000 /\ req[1].elapsed = 1000
    /\ req[2].pc = "sleeping" /\ req[2].attempt = 1 /\ req[2].calls = 2
    /\ req[2].delay = 2000 /\ req[2].elapsed = 0
    /\ req[2].sleptFor = <<1000>>

----------------------------------------------------------------------------
(* Concurrent operations on one adapter, under SpecOperations *)

\* two operations are called on a new adapter and run to their end,
\* interleaved at their await points, while the CLI may come and go
InitOperations ==
    /\ cliInstalled = Undefined
    /\ cliPresent \in BOOLEAN
    /\ probes = 0
    /\ firstProbe = Undefined
    /\ returned = {}
    /\ cacheHit = FALSE
    /\ probeThrew = FALSE
    /\ req = [r \in ConcReqs |-> IdleReq]
    /\ classifyIn = NewError(<<>>)
    /\ classifyOut = Undefined
    /\ retryOut = Undefined

NextOperations ==
    \/ \E r \in ConcReqs, op \in Ops : Call(r, op, ModelSonnet)
    \/ \E r \in ConcReqs : Settle(r)
    \/ \E r \in ConcReqs : TimerFire(r)
    \/ Tick
    \/ EnvChange

SpecOperations == InitOperations /\ [][NextOperations]_vars

\* C19: under any interleaving of concurrent generateText / streamText /
\* generateObject requests, the external version check runs at most once
\* and every call of checkCLIInstallation answers the outcome of that first
\* check: no request gets past the gate unless the first check succeeded,
\* none is rejected by the gate unless it failed, and every invocation of
\* a request's fn after the first check is answered from the cache.
C19_OneProbeUnderConcurrency ==
    /\ probes <= 1
    /\ \A b \in returned : firstProbe = Some(b)
    /\ \A r \in ConcReqs :
           /\ req[r].delegateCalls > 0 => firstProbe = Some(TRUE)
           /\ req[r].rejections > 0 => firstProbe = Some(FALSE)
           /\ req[r].calls > 0 => (firstProbe # Undefined /\ cliInstalled = firstProbe)
           /\ req[r].probeRuns <= 1
    /\ \A r \in ConcReqs : \A q \in ConcReqs \ {r} :
           /\ ~(req[r].probeRuns = 1 /\ req[q].probeRuns = 1)
           /\ ~(req[r].delegateCalls > 0 /\ req[q].rejections > 0)

\* generateText ran the external check and is in its second invocation of
\* the SDK; streamText, called meanwhile with the CLI removed, got past the
\* gate on the cached answer and awaits the SDK as well
C19_Witness ==
    /\ req[1].op = "generateText" /\ req[1].pc = "pending"
    /\ req[1].probeRuns = 1 /\ req[1].calls = 2 /\ req[1].delegateCalls = 2
    /\ req[2].op = "streamText" /\ req[2].pc = "pending"
    /\ req[2].probeRuns = 0 /\ req[2].calls = 1 /\ req[2].delegateCalls = 1
    /\ ~cliPresent
    /\ probes = 1 /\ cacheHit /\ returned = {TRUE}

----------------------------------------------------------------------------
(* Properties of the adapter, under Spec *)

\* C5: when checkCLIInstallation returns false, generateText, streamText and
\* generateObject fail with the CLI-is-not-installed error after a single
\* invocation: no retry, no backoff delay, and super.generateText /
\* super.streamText / super.generateObject is never invoked.
C5_CliMissingFailsFast ==
    \A r \in Reqs :
        (req[r].op \in Ops /\ cliInstalled = Some(FALSE)) =>
            /\ req[r].pc \in {"pending", "thrown"}
            /\ req[r].calls = 1
            /\ req[r].attempt = 0
            /\ req[r].waited = <<>>
            /\ req[r].delegateCalls = 0
            /\ req[r].clientCalls = 0
            /\ req[r].pc = "pending" =>
                   /\ req[r].fnState = "rejected"
                   /\ req[r].fnRejection = Some(NewError(CliNotInstalledMessage))
            /\ req[r].pc = "thrown" =>
                   req[r].thrown = Some(NewError(CliNotInstalledMessage))

\* streamText with model sonnet failed with the CLI-is-not-installed error
\* after one invocation, the probe having found no CLI
C5_Witness ==
    \E r \in Reqs :
        /\ req[r].op = "streamText" /\ req[r].modelId = ModelSonnet
        /\ cliInstalled = Some(FALSE)
        /\ req[r].pc = "thrown"
        /\ req[r].thrown = Some(NewError(CliNotInstalledMessage))
        /\ req[r].calls = 1 /\ req[r].delegateCalls = 0

\* C6: cliInstalled is null until the first probe, then holds the outcome of
\* the first external check for good; every call of checkCLIInstallation
\* returns that outcome and the external check runs at most once.
C6_ProbeCachedOnce ==
    /\ probes <= 1
    /\ (probes = 0) <=> (cliInstalled = Undefined)
    /\ cliInstalled = firstProbe
    /\ returned = (IF firstProbe = Undefined THEN {} ELSE {firstProbe[1]})
    /\ cacheHit => probes = 1

\* the first external check failed; the CLI was installed afterwards, and a
\* later call still answered false from the cache
C6_Witness ==
    /\ cliInstalled = Some(FALSE)
    /\ cliPresent
    /\ cacheHit
    /\ returned = {FALSE}
    /\ probes = 1

\* C9: a request with an unsupported model identifier is never retried:
\* once validateParams has rejected it, fn has been invoked exactly once and
\* no backoff delay is waited, also when the identifier contains a
\* retryability keyword.
C9_UnsupportedModelNotRetried ==
    \A r \in Reqs :
        req[r].rejections > 0 =>
            /\ req[r].rejections = 1
            /\ req[r].calls = 1
            /\ req[r].waited = <<>>
            /\ req[r].pc # "sleeping"

\* C10: an unsupported model identifier is rejected before any external
\* call: the request has run no `claude --version` probe and no client call
\* when validateParams rejects it, and the error it fails with names the
\* identifier and the supported models.
C10_RejectedBeforeExternalCall ==
    \A r \in Reqs :
        req[r].rejections > 0 =>
            /\ req[r].probeRuns = 0
            /\ req[r].clientCalls = 0
            /\ req[r].pc = "thrown" =>
                   /\ includes(req[r].thrown[1].message[1], req[r].modelId)
                   /\ includes(req[r].thrown[1].message[1],
                               join(supportedModels, <<",", " ">>))

\* C12: checkCLIInstallation never throws: when the external check fails it
\* returns false and caches false; no call of it raises an error.
C12_ProbeNeverThrows ==
    /\ ~probeThrew
    /\ firstProbe = Some(FALSE) => (cliInstalled = Some(FALSE) /\ returned = {FALSE})
    /\ firstProbe = Some(TRUE) => (cliInstalled = Some(TRUE) /\ returned = {TRUE})

\* the external check failed on a system without the CLI: the call returned
\* false, cached false, and generateObject then failed at its gate
C12_Witness ==
    /\ ~cliPresent
    /\ firstProbe = Some(FALSE)
    /\ cliInstalled = Some(FALSE)
    /\ returned = {FALSE}
    /\ \E r \in Reqs : req[r].op = "generateObject" /\ req[r].pc = "thrown"

\* s ends with suffix
endsWith(s, suffix) ==
    /\ Len(s) >= Len(suffix)
    /\ SubSeq(s, Len(s) - Len(suffix) + 1, Len(s)) = suffix

\* the error is one that handleError throws: one of the six fixed messages,
\* or a text followed by the authentication hint
classifiedForm(error) ==
    /\ error.message # Undefined
    /\ \/ error.message[1] \in {AuthRequiredMessage, CliNotFoundMessage,
                                 PermissionErrorMessage, TimeoutMessage,
                                 NetworkErrorMessage, AccessDeniedMessage}
       \/ endsWith(error.message[1], AuthHintSuffix)

\* C14: every failure that reaches the caller of generateText, streamText or
\* generateObject has been passed through handleError and is an error of
\* one of the seven categories, the CLI-missing failure included.
C14_FailuresClassified ==
    \A r \in Reqs :
        (req[r].op \in Ops /\ req[r].pc = "thrown") =>
            classifiedForm(req[r].thrown[1])

----------------------------------------------------------------------------
(* Properties of the classifier, under SpecClassify *)

\* the message, lower-cased, contains one of the keywords
mentions(error, keywords) ==
    \E kw \in keywords : includes(lowerOrEmpty(error.message), kw)

\* the auth keywords and the network keywords of the classification rules
AuthKeywords ==
    {<<"n","o","t"," ","a","u","t","h","e","n","t","i","c","a","t","e","d">>,
     <<"a","u","t","h","_","r","e","q","u","i","r","e","d">>,
     <<"a","u","t","h","e","n","t","i","c","a","t","i","o","n">>,
     <<"u","n","a","u","t","h","o","r","i","z","e","d">>,
     <<"s","e","s","s","i","o","n"," ","e","x","p","i","r","e","d">>,
     <<"i","n","v","a","l","i","d"," ","t","o","k","e","n">>,
     <<"l","o","g","i","n"," ","r","e","q","u","i","r","e","d">>,
     <<"p","l","e","a","s","e"," ","a","u","t","h","e","n","t","i","c","a","t","e">>}

NetworkKeywords ==
    {<<"e","c","o","n","n","r","e","f","u","s","e","d">>,
     <<"e","c","o","n","n","r","e","s","e","t">>,
     <<"e","n","o","t","f","o","u","n","d">>,
     <<"n","e","t","w","o","r","k">>,
     <<"s","o","c","k","e","t"," ","h","a","n","g"," ","u","p">>}

\* C7: an error whose message contains an auth keyword and a network
\* keyword is classified AuthRequired, not NetworkError; so is the message
\* "network auth_required failure".
C7_AuthBeforeNetwork ==
    (/\ classifyOut # Undefined
     /\ mentions(classifyIn, AuthKeywords)
     /\ mentions(classifyIn, NetworkKeywords)) =>
        categoryOf(classifyOut[1]) = "AuthRequired"

\* C8: the message of the error handleError throws contains the message of
\* the error it was given, in every category.
C8_OriginalTextPreserved ==
    (classifyOut # Undefined /\ classifyIn.message # Undefined) =>
        includes(classifyOut[1].message[1], classifyIn.message[1])

\* the categories whose error the thrown error is: the fixed message of the
\* category, or, for Unclassified, a text followed by the authentication hint
categoriesOf(thrown) ==
    IF thrown.message = Undefined THEN {}
    ELSE LET msg == thrown.message[1]
         IN  {c \in {"AuthRequired", "CliMissing", "PermissionDenied", "Timeout",
                     "NetworkError", "AccessDenied", "Unclassified"} :
                 \/ c = "AuthRequired" /\ msg = AuthRequiredMessage
                 \/ c = "CliMissing" /\ msg = CliNotFoundMessage
                 \/ c = "PermissionDenied" /\ msg = PermissionErrorMessage
                 \/ c = "Timeout" /\ msg = TimeoutMessage
                 \/ c = "NetworkError" /\ msg = NetworkErrorMessage
                 \/ c = "AccessDenied" /\ msg = AccessDeniedMessage
                 \/ c = "Unclassified" /\ endsWith(msg, AuthHintSuffix)}

\* C11: the classifier is total: for every error (message present, empty or
\* absent, any code, any status) handleError can be called and raises one
\* error, which belongs to exactly one of the seven categories.
C11_ClassifierTotal ==
    /\ classifyOut = Undefined => ENABLED CallHandleError
    /\ classifyOut # Undefined =>
           /\ Cardinality(categoriesOf(classifyOut[1])) = 1
           /\ categoryOf(classifyOut[1]) \in categoriesOf(classifyOut[1])

\* a plain object with no message, no code and no status was thrown and
\* classified as Unclassified, with the text "[object Object]" and the hint
C11_Witness ==
    /\ classifyIn = [name |-> Undefined, message |-> Undefined, code |-> Undefined,
                     status |-> Undefined]
    /\ classifyOut = Some(NewError(ObjectObject \o AuthHintSuffix))
    /\ categoriesOf(classifyOut[1]) = {"Unclassified"}

\* two errors differ only in the letter case of their messages
sameUpToCase(e1, e2) ==
    /\ e1.message # Undefined /\ e2.message # Undefined
    /\ toLowerCase(e1.message[1]) = toLowerCase(e2.message[1])
    /\ e1.name = e2.name
    /\ e1.code = e2.code
    /\ e1.status = e2.status

\* C15: the classifier matches keywords case-insensitively: two errors whose
\* messages differ only in letter case, with equal code and status, are
\* classified into the same category.
C15_CaseInsensitive ==
    classifyOut # Undefined =>
        \A e2 \in ClassifyInputs :
            sameUpToCase(classifyIn, e2) =>
                categoryOf(handleError("classify", e2)) = categoryOf(classifyOut[1])

\* the retryability keywords and codes of the classification rules
RetryKeywords ==
    {<<"s","p","a","w","n">>,
     <<"e","p","i","p","e">>,
     <<"s","i","g","t","e","r","m">>,
     <<"s","i","g","k","i","l","l">>,
     <<"e","c","o","n","n","r","e","s","e","t">>,
     <<"s","o","c","k","e","t"," ","h","a","n","g"," ","u","p">>,
     <<"n","e","t","w","o","r","k">>,
     <<"r","a","t","e"," ","l","i","m","i","t">>,
     <<"o","v","e","r","l","o","a","d","e","d">>,
     <<"t","e","m","p","o","r","a","r","i","l","y"," ","u","n","a","v","a","i","l","a","b","l","e">>}

RetryCodes == {<<"e","a","g","a","i","n">>, <<"e","m","f","i","l","e">>, <<"e","n","f","i","l","e">>}

\* C16: isRetryableError is true exactly when the lower-cased message
\* contains a retryability keyword or the lower-cased code is eagain, emfile
\* or enfile; it is false otherwise, also with no message and no code, and
\* it depends neither on the status nor on the classifier's category.
C16_RetryablePredicate ==
    retryOut # Undefined =>
        LET msg == IF classifyIn.message = Undefined THEN <<>>
                   ELSE toLowerCase(classifyIn.message[1])
            code == IF classifyIn.code = Undefined THEN <<>>
                    ELSE toLowerCase(classifyIn.code[1])
        IN  /\ retryOut[1] = ((\E kw \in RetryKeywords : includes(msg, kw))
                              \/ code \in RetryCodes)
            /\ \A st \in ClassifyStatuses :
                   isRetryableError([classifyIn EXCEPT !.status = st]) = retryOut[1]
            /\ (classifyIn.message = Undefined /\ classifyIn.code = Undefined) =>
                   retryOut[1] = FALSE

\* an error with no message and the upper-case code EMFILE was found
\* retryable, its status being 401
C16_Witness ==
    /\ classifyIn = [name |-> Some(ErrorName), message |-> Undefined,
                     code |-> Some(<<"E","M","F","I","L","E">>), status |-> Some(401)]
    /\ retryOut = Some(TRUE)

====
